---- MODULE Spec2Model ----
(***************************************************************************)
(* Time-locked custody escrow (contracts/time_lock/src/lib.rs).            *)
(*                                                                         *)
(* The escrow's persistent storage, the asset registry's custody map and   *)
(* the ledger clock are the state.  Every public entry point is a pure     *)
(* operator from the state before the call and the call's inputs to an     *)
(* outcome (the staged state at the point the handler returned or          *)
(* panicked, the events published, the result code); the action of the     *)
(* entry point hands that outcome to the host, which commits it when the   *)
(* call succeeded and discards it when it panicked.                        *)
(***************************************************************************)
EXTENDS Integers, Sequences, FiniteSets, TLC

\* ------------------------------------------------------------------ bounds
MaxTime == 1
MaxBatch == 2

Tokens == {1, 2}
Times == 0..MaxTime

\* ------------------------------------------------------------- identities
Escrow == "escrow"
Registry == "registry"
Policy == "policy"
Accounts == {"alice", "bob"}
NoSigner == "nobody"
Signers == Accounts \cup {NoSigner}
Invokers == Accounts \cup {Registry}
Unminted == "unminted"
AdminCandidates == {"alice"}

\* --------------------------------------------------------------- results
Ok == "ok"
AlreadyInitialized == "AlreadyInitialized"
NotInitialized == "NotInitialized"
AlreadyLocked == "AlreadyLocked"
NotLocked == "NotLocked"
VintageCheckMissing == "VintageCheckMissing"
VintageMismatch == "VintageMismatch"
AuthFailed == "AuthFailed"
TransferFailed == "TransferFailed"
OwnerOfFailed == "OwnerOfFailed"

EVENT_LOCKED == "locked"
EVENT_RELEASED == "released"
EVENT_FORCE_RELEASED == "force_rls"

VARIABLES storage, holder, now, last, retirement

vars == <<storage, holder, now, last, retirement>>

\* ------------------------------------------------------------ data model
\* A storage key holds the empty set when it was never set and {v} when it
\* holds v.  Option<Address> is {} for None and {a} for Some(a).
LockRecord(token_id, owner, unlock_timestamp, deposited_at) ==
    [token_id |-> token_id, owner |-> owner,
     unlock_timestamp |-> unlock_timestamp, deposited_at |-> deposited_at]

EmptyMap == [t \in {} |-> LockRecord(0, Escrow, 0, 0)]

MapGet(m, k) == IF k \in DOMAIN m THEN {m[k]} ELSE {}

MapSet(m, k, v) == [x \in (DOMAIN m) \cup {k} |-> IF x = k THEN v ELSE m[x]]

MapRemove(m, k) == [x \in (DOMAIN m) \ {k} |-> m[x]]

EmptyStorage ==
    [Admin |-> {}, CarbonAssetContract |-> {}, ValidateVintage |-> {},
     VintageCheckContract |-> {}, LockRecords |-> {}]

The(s) == CHOOSE x \in s : TRUE

\* An outcome of a call: the staged storage and custody, the events
\* published so far, and the result code.
Outcome(st, hold, ev, res) ==
    [storage |-> st, holder |-> hold, events |-> ev, res |-> res]

\* ------------------------------------------------------- host and registry
\* Address::require_auth: the call carries the authorization of addr.
require_auth(addr, signer) == addr = signer

\* CarbonAsset::transfer_from: moves custody; fails when `from` is not the
\* current holder.
transfer_from_ok(hold, from, token_id) == hold[token_id] = from

transfer_from(hold, from, to, token_id) == [hold EXCEPT ![token_id] = to]

\* CarbonAsset::get_vintage_unlock_timestamp of the policy collaborator: the
\* minimum unlock time of a token, a fixed attribute of the token (0 for
\* token 1, 1 for token 2).
get_vintage_unlock_timestamp(token_id) == token_id - 1

\* CarbonAsset::owner_of: the current holder; fails for a token that was
\* never minted.
owner_of(hold, token_id) ==
    IF hold[token_id] = Unminted THEN {} ELSE {hold[token_id]}

\* ---------------------------------------------------------------- helpers
get_admin(st) == st.Admin

get_carbon_asset_contract(st) == st.CarbonAssetContract

should_validate_vintage(st) ==
    IF st.ValidateVintage = {} THEN FALSE ELSE The(st.ValidateVintage)

get_vintage_check_contract(st) ==
    IF st.VintageCheckContract = {} THEN {} ELSE The(st.VintageCheckContract)

\* validate_vintage_unlock rejecting a request of exactly the minimum.
validate_vintage_unlock_Inclusive(st, token_id, unlock_timestamp, expected_unlock) ==
    IF get_vintage_check_contract(st) = {} THEN VintageCheckMissing
    ELSE IF unlock_timestamp <= expected_unlock THEN VintageMismatch
    ELSE Ok

\* validate_vintage_unlock letting the request through when no policy
\* collaborator is configured.
validate_vintage_unlock_SkipsMissingPolicy(st, token_id, unlock_timestamp, expected_unlock) ==
    IF get_vintage_check_contract(st) = {} THEN Ok
    ELSE IF unlock_timestamp < expected_unlock THEN VintageMismatch
    ELSE Ok

\* The result of validate_vintage_unlock: Ok, or the error it panics with.
\* expected_unlock is the policy collaborator's answer for the token.
validate_vintage_unlock(st, token_id, unlock_timestamp, expected_unlock) ==
    IF get_vintage_check_contract(st) = {} THEN VintageCheckMissing
    ELSE IF unlock_timestamp < expected_unlock THEN VintageMismatch
    ELSE Ok

read_lock_records(st) ==
    IF st.LockRecords = {} THEN EmptyMap ELSE The(st.LockRecords)

write_lock_records(st, records) == [st EXCEPT !.LockRecords = {records}]

\* ------------------------------------------------------------ entry points
\* initialize without the AlreadyInitialized guard of lines 60-62.
initialize_NoGuard(st, hold, signer, admin, carbon_asset_contract, validate_vintage, vintage_check_contract) ==
    IF ~require_auth(admin, signer) THEN Outcome(st, hold, <<>>, AuthFailed)
    ELSE Outcome([Admin |-> {admin},
                  CarbonAssetContract |-> {carbon_asset_contract},
                  ValidateVintage |-> {validate_vintage},
                  VintageCheckContract |-> {vintage_check_contract},
                  LockRecords |-> {EmptyMap}],
                 hold, <<>>, Ok)

\* initialize without the admin.require_auth() of line 64.
initialize_NoAuth(st, hold, signer, admin, carbon_asset_contract, validate_vintage, vintage_check_contract) ==
    IF st.Admin # {} THEN Outcome(st, hold, <<>>, AlreadyInitialized)
    ELSE Outcome([Admin |-> {admin},
                  CarbonAssetContract |-> {carbon_asset_contract},
                  ValidateVintage |-> {validate_vintage},
                  VintageCheckContract |-> {vintage_check_contract},
                  LockRecords |-> {EmptyMap}],
                 hold, <<>>, Ok)

initialize(st, hold, signer, admin, carbon_asset_contract, validate_vintage, vintage_check_contract) ==
    IF st.Admin # {} THEN Outcome(st, hold, <<>>, AlreadyInitialized)
    ELSE IF ~require_auth(admin, signer) THEN Outcome(st, hold, <<>>, AuthFailed)
    ELSE Outcome([Admin |-> {admin},
                  CarbonAssetContract |-> {carbon_asset_contract},
                  ValidateVintage |-> {validate_vintage},
                  VintageCheckContract |-> {vintage_check_contract},
                  LockRecords |-> {EmptyMap}],
                 hold, <<>>, Ok)

\* lock_credit_deposit without the deposit transfer of lines 103-107.
lock_credit_deposit_NoTransfer(st, hold, clock, invoker, carbon_asset, token_id, unlock_timestamp) ==
    LET lock_records == read_lock_records(st)
        owners == IF invoker = carbon_asset THEN owner_of(hold, token_id)
                  ELSE {invoker}
    IN  IF owners = {} THEN Outcome(st, hold, <<>>, OwnerOfFailed)
        ELSE LET owner == The(owners)
                 record == LockRecord(token_id, owner, unlock_timestamp, clock)
             IN  Outcome(
                   write_lock_records(st, MapSet(lock_records, token_id, record)),
                   hold,
                   <<[topic |-> EVENT_LOCKED, token_id |-> token_id,
                      data |-> record]>>,
                   Ok)

\* lock_credit_deposit going on after a deposit transfer that failed.
lock_credit_deposit_IgnoresTransferFailure(st, hold, clock, invoker, carbon_asset, token_id, unlock_timestamp) ==
    LET lock_records == read_lock_records(st)
        owners == IF invoker = carbon_asset THEN owner_of(hold, token_id)
                  ELSE {invoker}
    IN  IF owners = {} THEN Outcome(st, hold, <<>>, OwnerOfFailed)
        ELSE LET owner == The(owners)
                 record == LockRecord(token_id, owner, unlock_timestamp, clock)
             IN  Outcome(
                   write_lock_records(st, MapSet(lock_records, token_id, record)),
                   IF transfer_from_ok(hold, owner, token_id)
                   THEN transfer_from(hold, owner, Escrow, token_id)
                   ELSE hold,
                   <<[topic |-> EVENT_LOCKED, token_id |-> token_id,
                      data |-> record]>>,
                   Ok)

\* lock_credit_deposit storing the two times of the record in each other's
\* field.
lock_credit_deposit_SwapsTimes(st, hold, clock, invoker, carbon_asset, token_id, unlock_timestamp) ==
    LET lock_records == read_lock_records(st)
        owners == IF invoker = carbon_asset THEN owner_of(hold, token_id)
                  ELSE {invoker}
    IN  IF owners = {} THEN Outcome(st, hold, <<>>, OwnerOfFailed)
        ELSE LET owner == The(owners)
                 record == LockRecord(token_id, owner, clock, unlock_timestamp)
             IN  IF ~transfer_from_ok(hold, owner, token_id)
                 THEN Outcome(st, hold, <<>>, TransferFailed)
                 ELSE Outcome(
                        write_lock_records(st, MapSet(lock_records, token_id, record)),
                        transfer_from(hold, owner, Escrow, token_id),
                        <<[topic |-> EVENT_LOCKED, token_id |-> token_id,
                           data |-> record]>>,
                        Ok)

\* The code after the uniqueness check of lock_credit: owner determination,
\* the deposit transfer, the registry write and the event.
lock_credit_deposit(st, hold, clock, invoker, carbon_asset, token_id, unlock_timestamp) ==
    LET lock_records == read_lock_records(st)
        owners == IF invoker = carbon_asset THEN owner_of(hold, token_id)
                  ELSE {invoker}
    IN  IF owners = {} THEN Outcome(st, hold, <<>>, OwnerOfFailed)
        ELSE LET owner == The(owners)
                 record == LockRecord(token_id, owner, unlock_timestamp, clock)
             IN  IF ~transfer_from_ok(hold, owner, token_id)
                 THEN Outcome(st, hold, <<>>, TransferFailed)
                 ELSE Outcome(
                        write_lock_records(st, MapSet(lock_records, token_id, record)),
                        transfer_from(hold, owner, Escrow, token_id),
                        <<[topic |-> EVENT_LOCKED, token_id |-> token_id,
                           data |-> record]>>,
                        Ok)

\* lock_credit without the uniqueness check of lines 93-95.
lock_credit_NoUniquenessCheck(st, hold, clock, invoker, signer, token_id, unlock_timestamp, expected_unlock) ==
    IF get_carbon_asset_contract(st) = {}
    THEN Outcome(st, hold, <<>>, NotInitialized)
    ELSE LET carbon_asset == The(get_carbon_asset_contract(st))
             vintage == IF should_validate_vintage(st)
                        THEN validate_vintage_unlock(st, token_id,
                                                     unlock_timestamp,
                                                     expected_unlock)
                        ELSE Ok
         IN  IF invoker # carbon_asset /\ ~require_auth(invoker, signer)
             THEN Outcome(st, hold, <<>>, AuthFailed)
             ELSE IF vintage # Ok THEN Outcome(st, hold, <<>>, vintage)
             ELSE lock_credit_deposit(st, hold, clock, invoker, carbon_asset,
                                      token_id, unlock_timestamp)

\* lock_credit without the invoker.require_auth() of lines 84-86.
lock_credit_NoAuth(st, hold, clock, invoker, signer, token_id, unlock_timestamp, expected_unlock) ==
    IF get_carbon_asset_contract(st) = {}
    THEN Outcome(st, hold, <<>>, NotInitialized)
    ELSE LET carbon_asset == The(get_carbon_asset_contract(st))
             vintage == IF should_validate_vintage(st)
                        THEN validate_vintage_unlock(st, token_id,
                                                     unlock_timestamp,
                                                     expected_unlock)
                        ELSE Ok
         IN  IF vintage # Ok THEN Outcome(st, hold, <<>>, vintage)
             ELSE IF token_id \in DOMAIN read_lock_records(st)
             THEN Outcome(st, hold, <<>>, AlreadyLocked)
             ELSE lock_credit_deposit(st, hold, clock, invoker, carbon_asset,
                                      token_id, unlock_timestamp)

\* lock_credit falling back to the registry address when none is stored,
\* instead of the NotInitialized panic of lines 206-211.
lock_credit_DefaultRegistry(st, hold, clock, invoker, signer, token_id, unlock_timestamp, expected_unlock) ==
    LET carbon_asset == IF get_carbon_asset_contract(st) = {} THEN Registry
                        ELSE The(get_carbon_asset_contract(st))
        vintage == IF should_validate_vintage(st)
                   THEN validate_vintage_unlock(st, token_id, unlock_timestamp,
                                                expected_unlock)
                   ELSE Ok
    IN  IF invoker # carbon_asset /\ ~require_auth(invoker, signer)
        THEN Outcome(st, hold, <<>>, AuthFailed)
        ELSE IF vintage # Ok THEN Outcome(st, hold, <<>>, vintage)
        ELSE IF token_id \in DOMAIN read_lock_records(st)
        THEN Outcome(st, hold, <<>>, AlreadyLocked)
        ELSE lock_credit_deposit(st, hold, clock, invoker, carbon_asset,
                                 token_id, unlock_timestamp)

lock_credit(st, hold, clock, invoker, signer, token_id, unlock_timestamp, expected_unlock) ==
    IF get_carbon_asset_contract(st) = {}
    THEN Outcome(st, hold, <<>>, NotInitialized)
    ELSE LET carbon_asset == The(get_carbon_asset_contract(st))
             vintage == IF should_validate_vintage(st)
                        THEN validate_vintage_unlock(st, token_id,
                                                     unlock_timestamp,
                                                     expected_unlock)
                        ELSE Ok
         IN  IF invoker # carbon_asset /\ ~require_auth(invoker, signer)
             THEN Outcome(st, hold, <<>>, AuthFailed)
             ELSE IF vintage # Ok THEN Outcome(st, hold, <<>>, vintage)
             ELSE IF token_id \in DOMAIN read_lock_records(st)
             THEN Outcome(st, hold, <<>>, AlreadyLocked)
             ELSE lock_credit_deposit(st, hold, clock, invoker, carbon_asset,
                                      token_id, unlock_timestamp)

\* The custody return, registry delete and event shared by the two release
\* paths (lines 133-143 and 162-172).
\* release_record without the custody return of lines 134-138 / 163-167.
release_record_KeepsCustody(st, hold, record, token_id, topic) ==
    IF get_carbon_asset_contract(st) = {}
    THEN Outcome(st, hold, <<>>, NotInitialized)
    ELSE Outcome(
           write_lock_records(st, MapRemove(read_lock_records(st), token_id)),
           hold,
           <<[topic |-> topic, token_id |-> token_id, data |-> record]>>,
           Ok)

\* release_record writing an empty registry instead of the registry
\* without the token (lines 140-141 / 169-170).
release_record_ClearsRegistry(st, hold, record, token_id, topic) ==
    IF get_carbon_asset_contract(st) = {}
    THEN Outcome(st, hold, <<>>, NotInitialized)
    ELSE IF ~transfer_from_ok(hold, Escrow, token_id)
    THEN Outcome(st, hold, <<>>, TransferFailed)
    ELSE Outcome(
           write_lock_records(st, EmptyMap),
           transfer_from(hold, Escrow, record.owner, token_id),
           <<[topic |-> topic, token_id |-> token_id, data |-> record]>>,
           Ok)

release_record(st, hold, record, token_id, topic) ==
    IF get_carbon_asset_contract(st) = {}
    THEN Outcome(st, hold, <<>>, NotInitialized)
    ELSE IF ~transfer_from_ok(hold, Escrow, token_id)
    THEN Outcome(st, hold, <<>>, TransferFailed)
    ELSE Outcome(
           write_lock_records(st, MapRemove(read_lock_records(st), token_id)),
           transfer_from(hold, Escrow, record.owner, token_id),
           <<[topic |-> topic, token_id |-> token_id, data |-> record]>>,
           Ok)

\* release_if_eligible with the comparison of line 129 inverted.
release_if_eligible_InvertedGuard(st, hold, clock, token_id) ==
    LET found == MapGet(read_lock_records(st), token_id)
    IN  IF found = {} THEN Outcome(st, hold, <<>>, Ok)
        ELSE IF clock > The(found).unlock_timestamp
        THEN Outcome(st, hold, <<>>, Ok)
        ELSE release_record(st, hold, The(found), token_id, EVENT_RELEASED)

\* release_if_eligible treating a missing record as force_release does.
release_if_eligible_StrictNotLocked(st, hold, clock, token_id) ==
    LET found == MapGet(read_lock_records(st), token_id)
    IN  IF found = {} THEN Outcome(st, hold, <<>>, NotLocked)
        ELSE IF clock < The(found).unlock_timestamp
        THEN Outcome(st, hold, <<>>, Ok)
        ELSE release_record(st, hold, The(found), token_id, EVENT_RELEASED)

\* release_if_eligible releasing only once the clock is past the unlock time.
release_if_eligible_StrictlyAfter(st, hold, clock, token_id) ==
    LET found == MapGet(read_lock_records(st), token_id)
    IN  IF found = {} THEN Outcome(st, hold, <<>>, Ok)
        ELSE IF clock <= The(found).unlock_timestamp
        THEN Outcome(st, hold, <<>>, Ok)
        ELSE release_record(st, hold, The(found), token_id, EVENT_RELEASED)

release_if_eligible(st, hold, clock, token_id) ==
    LET found == MapGet(read_lock_records(st), token_id)
    IN  IF found = {} THEN Outcome(st, hold, <<>>, Ok)
        ELSE IF clock < The(found).unlock_timestamp
        THEN Outcome(st, hold, <<>>, Ok)
        ELSE release_record(st, hold, The(found), token_id, EVENT_RELEASED)

\* batch_release ending its loop after the first identifier.
batch_release_FirstOnly(st, hold, clock, token_ids) ==
    IF token_ids = <<>> THEN Outcome(st, hold, <<>>, Ok)
    ELSE release_if_eligible(st, hold, clock, Head(token_ids))

\* batch_release going on to the next identifier when an item failed.
RECURSIVE batch_release_SkipsFailedItem(_, _, _, _)
batch_release_SkipsFailedItem(st, hold, clock, token_ids) ==
    IF token_ids = <<>> THEN Outcome(st, hold, <<>>, Ok)
    ELSE LET first == release_if_eligible(st, hold, clock, Head(token_ids))
             kept == IF first.res = Ok THEN first ELSE Outcome(st, hold, <<>>, Ok)
             rest == batch_release_SkipsFailedItem(kept.storage, kept.holder, clock, Tail(token_ids))
         IN  [rest EXCEPT !.events = kept.events \o rest.events]

\* The loop of batch_release: each item runs on the state the items before
\* it left; a panicking item ends the call with what was staged so far.
RECURSIVE batch_release(_, _, _, _)
batch_release(st, hold, clock, token_ids) ==
    IF token_ids = <<>> THEN Outcome(st, hold, <<>>, Ok)
    ELSE LET first == release_if_eligible(st, hold, clock, Head(token_ids))
         IN  IF first.res # Ok THEN first
             ELSE LET rest == batch_release(first.storage, first.holder, clock,
                                            Tail(token_ids))
                  IN  [rest EXCEPT !.events = first.events \o rest.events]

\* force_release without the admin.require_auth() of line 154.
force_release_NoAuth(st, hold, clock, signer, token_id) ==
    IF get_admin(st) = {} THEN Outcome(st, hold, <<>>, NotInitialized)
    ELSE LET found == MapGet(read_lock_records(st), token_id)
         IN  IF found = {} THEN Outcome(st, hold, <<>>, NotLocked)
             ELSE release_record(st, hold, The(found), token_id,
                                 EVENT_FORCE_RELEASED)

\* force_release honouring the unlock time as release_if_eligible does.
force_release_TimeGuarded(st, hold, clock, signer, token_id) ==
    IF get_admin(st) = {} THEN Outcome(st, hold, <<>>, NotInitialized)
    ELSE IF ~require_auth(The(get_admin(st)), signer)
    THEN Outcome(st, hold, <<>>, AuthFailed)
    ELSE LET found == MapGet(read_lock_records(st), token_id)
         IN  IF found = {} THEN Outcome(st, hold, <<>>, NotLocked)
             ELSE IF clock < The(found).unlock_timestamp
             THEN Outcome(st, hold, <<>>, NotLocked)
             ELSE release_record(st, hold, The(found), token_id,
                                 EVENT_FORCE_RELEASED)

\* force_release never reads the clock it is given.
force_release(st, hold, clock, signer, token_id) ==
    IF get_admin(st) = {} THEN Outcome(st, hold, <<>>, NotInitialized)
    ELSE IF ~require_auth(The(get_admin(st)), signer)
    THEN Outcome(st, hold, <<>>, AuthFailed)
    ELSE LET found == MapGet(read_lock_records(st), token_id)
         IN  IF found = {} THEN Outcome(st, hold, <<>>, NotLocked)
             ELSE release_record(st, hold, The(found), token_id,
                                 EVENT_FORCE_RELEASED)

get_lock_status(st, token_id) == MapGet(read_lock_records(st), token_id)

\* The loop of get_tokens_locked_until with the comparison of line 183
\* inclusive.
RECURSIVE scan_locked_until_Inclusive(_, _, _)
scan_locked_until_Inclusive(lock_records, keys, timestamp) ==
    IF keys = {} THEN <<>>
    ELSE LET token_id == CHOOSE k \in keys : \A x \in keys : k <= x
             rest == scan_locked_until_Inclusive(lock_records, keys \ {token_id}, timestamp)
         IN  IF lock_records[token_id].unlock_timestamp >= timestamp
             THEN <<token_id>> \o rest
             ELSE rest

\* The loop of get_tokens_locked_until over the map's entries, which the map
\* yields in ascending key order: the tokens pushed for the keys left.
RECURSIVE scan_locked_until(_, _, _)
scan_locked_until(lock_records, keys, timestamp) ==
    IF keys = {} THEN <<>>
    ELSE LET token_id == CHOOSE k \in keys : \A x \in keys : k <= x
             rest == scan_locked_until(lock_records, keys \ {token_id}, timestamp)
         IN  IF lock_records[token_id].unlock_timestamp > timestamp
             THEN <<token_id>> \o rest
             ELSE rest

get_tokens_locked_until(st, timestamp) ==
    LET lock_records == read_lock_records(st)
    IN  scan_locked_until(lock_records, DOMAIN lock_records, timestamp)

\* ----------------------------------------------------- retirement tracker
\* The retirement tracker (contracts/retirement_tracker/src/lib.rs) is a
\* second contract on the same ledger and the same asset registry.  Its
\* storage: the two instance keys, the RetirementLedger(token_id) keys as a
\* map from token to record, the EntityIndex(entity) keys as a map from
\* account to the sequence of tokens it retired.
TokenAlreadyRetired == "TokenAlreadyRetired"
ContractNotInitialized == "ContractNotInitialized"
TrackerAlreadyInitialized == "Contract already initialized"
BurnTrapped == "BurnTrapped"

EVENT_RETIRED == "retirement"

\* The ContractError values retire hands back to its caller as Err(..); every
\* other failure is a panic or a trap of the whole invocation.
ReturnedErrors == {TokenAlreadyRetired, ContractNotInitialized}

RetirementRecord(token_id, retiring_entity, timestamp) ==
    [token_id |-> token_id, retiring_entity |-> retiring_entity,
     timestamp |-> timestamp, tx_hash |-> <<token_id, timestamp>>]

\* The tracker's storage in a system the tracker is not part of.
NotDeployed == "not deployed"

EmptyRetirement ==
    [Admin |-> {}, CarbonAssetContract |-> {},
     RetirementLedger |-> [t \in {} |-> RetirementRecord(0, Escrow, 0)],
     EntityIndex |-> [a \in Accounts |-> <<>>]]

\* An outcome of a tracker call: the staged tracker storage and custody, the
\* events, the result code and the value returned.
TrackerOutcome(rt, hold, ev, res, ret) ==
    [retirement |-> rt, holder |-> hold, events |-> ev, res |-> res, ret |-> ret]

\* CarbonAsset::burn(token_id, from): the registry verifies that `from`
\* holds the token and destroys it.
burn_ok(hold, token_id, from) == hold[token_id] = from

burn(hold, token_id) == [hold EXCEPT ![token_id] = Unminted]

tracker_initialize(rt, hold, signer, admin, carbon_asset_contract) ==
    IF ~require_auth(admin, signer)
    THEN TrackerOutcome(rt, hold, <<>>, AuthFailed, <<>>)
    ELSE IF rt.Admin # {}
    THEN TrackerOutcome(rt, hold, <<>>, TrackerAlreadyInitialized, <<>>)
    ELSE TrackerOutcome([rt EXCEPT !.Admin = {admin},
                                   !.CarbonAssetContract = {carbon_asset_contract}],
                        hold, <<>>, Ok, <<>>)

\* retire: the value returned is <<record>> for Ok(record).  The burn is
\* env.invoke_contract (line 158), so a burn that fails traps the invocation
\* instead of coming back as an error value.
retire(rt, hold, clock, signer, token_id, retiring_entity) ==
    IF ~require_auth(retiring_entity, signer)
    THEN TrackerOutcome(rt, hold, <<>>, AuthFailed, <<>>)
    ELSE IF token_id \in DOMAIN rt.RetirementLedger
    THEN TrackerOutcome(rt, hold, <<>>, TokenAlreadyRetired, <<>>)
    ELSE IF rt.CarbonAssetContract = {}
    THEN TrackerOutcome(rt, hold, <<>>, ContractNotInitialized, <<>>)
    ELSE IF ~burn_ok(hold, token_id, retiring_entity)
    THEN TrackerOutcome(rt, hold, <<>>, BurnTrapped, <<>>)
    ELSE LET record == RetirementRecord(token_id, retiring_entity, clock)
         IN  TrackerOutcome(
               [rt EXCEPT !.RetirementLedger = MapSet(@, token_id, record),
                          !.EntityIndex[retiring_entity] = Append(@, token_id)],
               burn(hold, token_id),
               <<<<EVENT_RETIRED, token_id, clock>>>>,
               Ok,
               <<record>>)

\* The loop of batch_retire (lines 217-230): an Ok(record) is pushed, an
\* Err(..) is dropped and the loop goes on; a trap inside retire ends the
\* invocation.
RECURSIVE retire_each(_, _, _, _, _, _)
retire_each(rt, hold, clock, signer, token_ids, retiring_entity) ==
    IF token_ids = <<>> THEN TrackerOutcome(rt, hold, <<>>, Ok, <<>>)
    ELSE LET first == retire(rt, hold, clock, signer, Head(token_ids), retiring_entity)
         IN  IF first.res \notin {Ok} \cup ReturnedErrors THEN first
             ELSE LET rest == retire_each(first.retirement, first.holder, clock, signer, Tail(token_ids), retiring_entity)
                  IN  IF rest.res # Ok THEN rest
                      ELSE [rest EXCEPT !.events = first.events \o rest.events,
                                        !.ret = first.ret \o rest.ret]

batch_retire(rt, hold, clock, signer, token_ids, retiring_entity) ==
    IF ~require_auth(retiring_entity, signer)
    THEN TrackerOutcome(rt, hold, <<>>, AuthFailed, <<>>)
    ELSE retire_each(rt, hold, clock, signer, token_ids, retiring_entity)

\* ------------------------------------------------------------------ host
\* What the call descriptor keeps of each published event: its symbol, its
\* token and the unlock time of the record it carries.
Published(events) ==
    [i \in 1..Len(events) |->
        <<events[i].topic, events[i].token_id, events[i].data.unlock_timestamp>>]

\* The call the last step made: the entry point, the tokens it named, the
\* result code and the events the host kept of it.  A step of the
\* environment (the clock, the registry's own transfers) leaves NoCall.
NoCall == [op |-> "none", token_ids |-> <<>>, res |-> Ok, events |-> <<>>]

\* The host's transaction boundary around one call made in the current
\* state: the staged storage, custody and events of a call that returned
\* are committed, those of a call that panicked are dropped.
Invoke(op, token_ids, out) ==
    [storage |-> IF out.res = Ok THEN out.storage ELSE storage,
     holder |-> IF out.res = Ok THEN out.holder ELSE holder,
     last |-> [op |-> op, token_ids |-> token_ids, res |-> out.res,
               events |-> IF out.res = Ok THEN Published(out.events) ELSE <<>>]]

\* Each entry point called in the current state, as the host runs it.
InvokeInitialize(signer, admin, validate_vintage, vintage_check_contract) ==
    Invoke("initialize", <<>>,
           initialize(storage, holder, signer, admin, Registry,
                      validate_vintage, vintage_check_contract))

\* lock_credit when the policy collaborator answers expected_unlock.
InvokeLockCreditWith(invoker, signer, token_id, unlock_timestamp, expected_unlock) ==
    Invoke("lock_credit", <<token_id>>,
           lock_credit(storage, holder, now, invoker, signer, token_id,
                       unlock_timestamp, expected_unlock))

InvokeLockCredit(invoker, signer, token_id, unlock_timestamp) ==
    InvokeLockCreditWith(invoker, signer, token_id, unlock_timestamp,
                         get_vintage_unlock_timestamp(token_id))

InvokeReleaseIfEligible(token_id) ==
    Invoke("release_if_eligible", <<token_id>>,
           release_if_eligible(storage, holder, now, token_id))

InvokeBatchRelease(token_ids) ==
    Invoke("batch_release", token_ids,
           batch_release(storage, holder, now, token_ids))

InvokeForceRelease(signer, token_id) ==
    Invoke("force_release", <<token_id>>,
           force_release(storage, holder, now, signer, token_id))

\* The read-only entry points stage nothing: their outcome is the state
\* they were called in.  get_admin and get_carbon_asset_contract panic with
\* NotInitialized when the key was never set.
InvokeView(op, res) == Invoke(op, <<>>, Outcome(storage, holder, <<>>, res))

InvokeGetLockStatus(token_id) == InvokeView("get_lock_status", Ok)

InvokeGetTokensLockedUntil(timestamp) == InvokeView("get_tokens_locked_until", Ok)

InvokeGetAdmin ==
    InvokeView("get_admin",
               IF get_admin(storage) = {} THEN NotInitialized ELSE Ok)

InvokeGetCarbonAssetContract ==
    InvokeView("get_carbon_asset_contract",
               IF get_carbon_asset_contract(storage) = {} THEN NotInitialized
               ELSE Ok)

\* ---------------------------------------------------------------- actions
TokenSeqs == UNION {[1..n -> Tokens] : n \in 0..MaxBatch}

Init ==
    /\ storage = EmptyStorage
    /\ holder \in [Tokens -> Accounts \cup {Unminted}]
    /\ now = 0
    /\ last = NoCall
    /\ retirement = NotDeployed

\* The step a call makes: the state the host left and the call's descriptor.
Step(post) ==
    /\ storage' = post.storage
    /\ holder' = post.holder
    /\ last' = post.last
    /\ UNCHANGED retirement

Initialize(signer, admin, validate_vintage, vintage_check_contract) ==
    /\ Step(InvokeInitialize(signer, admin, validate_vintage,
                             vintage_check_contract))
    /\ UNCHANGED now

LockCredit(invoker, signer, token_id, unlock_timestamp) ==
    /\ Step(InvokeLockCredit(invoker, signer, token_id, unlock_timestamp))
    /\ UNCHANGED now

\* release_if_eligible and batch_release read no caller identity and demand
\* no authorization, so their calls have no caller input.
ReleaseIfEligible(token_id) ==
    /\ Step(InvokeReleaseIfEligible(token_id))
    /\ UNCHANGED now

BatchRelease(token_ids) ==
    /\ Step(InvokeBatchRelease(token_ids))
    /\ UNCHANGED now

ForceRelease(signer, token_id) ==
    /\ Step(InvokeForceRelease(signer, token_id))
    /\ UNCHANGED now

GetLockStatus(token_id) ==
    /\ Step(InvokeGetLockStatus(token_id))
    /\ UNCHANGED now

GetTokensLockedUntil(timestamp) ==
    /\ Step(InvokeGetTokensLockedUntil(timestamp))
    /\ UNCHANGED now

GetAdmin ==
    /\ Step(InvokeGetAdmin)
    /\ UNCHANGED now

GetCarbonAssetContract ==
    /\ Step(InvokeGetCarbonAssetContract)
    /\ UNCHANGED now

\* The ledger clock advances.
Tick ==
    /\ now < MaxTime
    /\ now' = now + 1
    /\ last' = NoCall
    /\ UNCHANGED <<storage, holder, retirement>>

\* An account holding a token moves it to another account in the registry.
RegistryTransfer(token_id, to) ==
    /\ holder[token_id] \in Accounts
    /\ to # holder[token_id]
    /\ holder' = transfer_from(holder, holder[token_id], to, token_id)
    /\ last' = NoCall
    /\ UNCHANGED <<storage, now, retirement>>

Next ==
    \/ \E signer \in Signers, admin \in AdminCandidates, vv \in BOOLEAN,
          vcc \in {{}, {Policy}} :
          Initialize(signer, admin, vv, vcc)
    \/ \E invoker \in Invokers, signer \in Signers, t \in Tokens,
          ts \in Times :
          LockCredit(invoker, signer, t, ts)
    \/ \E t \in Tokens : ReleaseIfEligible(t)
    \/ \E ids \in TokenSeqs : BatchRelease(ids)
    \/ \E signer \in Signers, t \in Tokens : ForceRelease(signer, t)
    \/ Tick
    \/ \E t \in Tokens, to \in Accounts : RegistryTransfer(t, to)

Spec == Init /\ [][Next]_vars

\* The escrow with its read-only entry points called as well.
NextQueries ==
    \/ \E signer \in Signers, admin \in AdminCandidates, vv \in BOOLEAN,
          vcc \in {{}, {Policy}} :
          Initialize(signer, admin, vv, vcc)
    \/ \E invoker \in Invokers, signer \in Signers, t \in Tokens,
          ts \in Times :
          LockCredit(invoker, signer, t, ts)
    \/ \E t \in Tokens : ReleaseIfEligible(t)
    \/ \E ids \in TokenSeqs : BatchRelease(ids)
    \/ \E signer \in Signers, t \in Tokens : ForceRelease(signer, t)
    \/ \E t \in Tokens : GetLockStatus(t)
    \/ \E ts \in Times : GetTokensLockedUntil(ts)
    \/ GetAdmin
    \/ GetCarbonAssetContract
    \/ Tick
    \/ \E t \in Tokens, to \in Accounts : RegistryTransfer(t, to)

SpecQueries == Init /\ [][NextQueries]_vars

\* The escrow initialized with a policy collaborator and called by token
\* owners under their own authorization, with a clock that keeps advancing
\* and a caller (anyone may call it) that keeps calling release_if_eligible
\* for every token.
NextLive ==
    \/ \E admin \in AdminCandidates, vv \in BOOLEAN :
          Initialize(admin, admin, vv, {Policy})
    \/ \E owner \in Accounts, t \in Tokens, ts \in Times :
          LockCredit(owner, owner, t, ts)
    \/ \E t \in Tokens : ReleaseIfEligible(t)
    \/ Tick

SpecLive ==
    /\ Init
    /\ [][NextLive]_vars
    /\ WF_vars(Tick)
    /\ \A t \in Tokens : WF_vars(ReleaseIfEligible(t))

\* The registry retires a token the escrow holds (its burn entry point, the
\* one the retirement tracker calls): the token has no holder any more and
\* every later transfer of it out of the escrow fails.
RegistryBurn(token_id) ==
    /\ holder[token_id] = Escrow
    /\ holder' = [holder EXCEPT ![token_id] = Unminted]
    /\ last' = NoCall
    /\ UNCHANGED <<storage, now, retirement>>

NextFaulty ==
    \/ \E admin \in AdminCandidates, vv \in BOOLEAN, vcc \in {{}, {Policy}} :
          Initialize(admin, admin, vv, vcc)
    \/ \E owner \in Accounts, t \in Tokens, ts \in Times :
          LockCredit(owner, owner, t, ts)
    \/ \E ids \in TokenSeqs : BatchRelease(ids)
    \/ Tick
    \/ \E t \in Tokens : RegistryBurn(t)

\* The escrow, called by the admin and by token owners under their own
\* authorization, next to a registry whose return transfers can fail.
SpecFaulty == Init /\ [][NextFaulty]_vars

\* ------------------------------------------------- retirement tracker, host
\* The host's transaction boundary around one call of the tracker made in
\* the current state; ret is the value the caller gets from a call that
\* succeeded.
InvokeTracker(op, token_ids, out) ==
    [retirement |-> IF out.res = Ok THEN out.retirement ELSE retirement,
     holder |-> IF out.res = Ok THEN out.holder ELSE holder,
     ret |-> IF out.res = Ok THEN out.ret ELSE <<>>,
     last |-> [op |-> op, token_ids |-> token_ids, res |-> out.res,
               events |-> IF out.res = Ok THEN out.events ELSE <<>>]]

InvokeTrackerInitialize(signer, admin) ==
    InvokeTracker("tracker_initialize", <<>>,
                  tracker_initialize(retirement, holder, signer, admin, Registry))

InvokeRetire(signer, token_id, retiring_entity) ==
    InvokeTracker("retire", <<token_id>>,
                  retire(retirement, holder, now, signer, token_id, retiring_entity))

InvokeBatchRetire(signer, token_ids, retiring_entity) ==
    InvokeTracker("batch_retire", token_ids,
                  batch_retire(retirement, holder, now, signer, token_ids, retiring_entity))

TrackerStep(post) ==
    /\ retirement' = post.retirement
    /\ holder' = post.holder
    /\ last' = post.last

TrackerInitialize(signer, admin) ==
    /\ TrackerStep(InvokeTrackerInitialize(signer, admin))
    /\ UNCHANGED <<storage, now>>

Retire(signer, token_id, retiring_entity) ==
    /\ TrackerStep(InvokeRetire(signer, token_id, retiring_entity))
    /\ UNCHANGED <<storage, now>>

BatchRetire(signer, token_ids, retiring_entity) ==
    /\ TrackerStep(InvokeBatchRetire(signer, token_ids, retiring_entity))
    /\ UNCHANGED <<storage, now>>

NextRetirement ==
    \/ \E signer \in Signers, admin \in AdminCandidates :
          TrackerInitialize(signer, admin)
    \/ \E signer \in Signers, t \in Tokens, entity \in Accounts :
          Retire(signer, t, entity)
    \/ \E signer \in Signers, ids \in TokenSeqs, entity \in Accounts :
          BatchRetire(signer, ids, entity)
    \/ Tick
    \/ \E t \in Tokens, to \in Accounts : RegistryTransfer(t, to)

\* The retirement tracker next to the registry and the clock; the escrow is
\* never initialized.
InitRetirement ==
    /\ storage = EmptyStorage
    /\ holder \in [Tokens -> Accounts \cup {Unminted}]
    /\ now = 0
    /\ last = NoCall
    /\ retirement = EmptyRetirement

SpecRetirement == InitRetirement /\ [][NextRetirement]_vars

\* ----------------------------------------------------------------- claims
\* Every claim about a call is stated for the current state and every input
\* of the call: Invoke... is the state the host leaves and the descriptor of
\* the call when it is made in the current state.
Records == read_lock_records(storage)

Locked(t) == t \in DOMAIN Records

Initialized == get_admin(storage) # {}

\* The authorization gate of lock_credit lets the call through.
Authorized(invoker, signer) == invoker = Registry \/ signer = invoker

\* The vintage check of lock_credit lets the call through.
VintagePasses(t, unlock_timestamp) ==
    \/ ~should_validate_vintage(storage)
    \/ /\ get_vintage_check_contract(storage) # {}
       /\ unlock_timestamp >= get_vintage_unlock_timestamp(t)

LastToken == last.token_ids[1]

\* C1 as stated: lock_credit on a token that already has a record fails with
\* AlreadyLocked for every caller and every requested unlock time, and
\* leaves the records and custody unchanged.
C1_AlwaysAlreadyLocked ==
    \A invoker \in Invokers, signer \in Signers, t \in Tokens, ts \in Times :
        Locked(t) =>
            LET post == InvokeLockCredit(invoker, signer, t, ts)
            IN  /\ post.last.res = AlreadyLocked
                /\ post.storage = storage
                /\ post.holder = holder

\* C1 amended: lock_credit on a token that already has a record always
\* fails and leaves the records and custody unchanged; it fails with
\* AlreadyLocked when the call passes the authorization gate and the
\* vintage check, which run first, and otherwise with the authorization
\* failure, VintageCheckMissing or VintageMismatch.
C1_LockOnLockedFails ==
    \A invoker \in Invokers, signer \in Signers, t \in Tokens, ts \in Times :
        Locked(t) =>
            LET post == InvokeLockCredit(invoker, signer, t, ts)
            IN  /\ post.last.res \in {AlreadyLocked, AuthFailed,
                                      VintageCheckMissing, VintageMismatch}
                /\ (Authorized(invoker, signer) /\ VintagePasses(t, ts))
                      <=> post.last.res = AlreadyLocked
                /\ post.storage = storage
                /\ post.holder = holder
                /\ post.last.events = <<>>

C1_Witness ==
    /\ last.op = "lock_credit"
    /\ last.res = AlreadyLocked
    /\ Locked(LastToken)

\* C2: a successful lock_credit(token, t) records as owner the account that
\* held the token and moves the token to the escrow; release_if_eligible on
\* a locked token once the clock is >= its unlock time succeeds, makes the
\* recorded owner the holder again and removes the record, so that
\* get_lock_status reports absence.
C2_RoundTrip ==
    \A t \in Tokens :
        /\ \A invoker \in Invokers, signer \in Signers, ts \in Times :
              LET post == InvokeLockCredit(invoker, signer, t, ts)
              IN  post.last.res = Ok =>
                     /\ get_lock_status(post.storage, t) =
                            {LockRecord(t, holder[t], ts, now)}
                     /\ holder[t] \in Accounts
                     /\ post.holder[t] = Escrow
        /\ (Locked(t) /\ now >= Records[t].unlock_timestamp) =>
              LET post == InvokeReleaseIfEligible(t)
              IN  /\ post.last.res = Ok
                  /\ post.holder[t] = Records[t].owner
                  /\ get_lock_status(post.storage, t) = {}

C2_Witness ==
    /\ last.op = "release_if_eligible"
    /\ last.events # <<>>
    /\ last.events[1][3] <= now
    /\ holder[LastToken] \in Accounts
    /\ get_lock_status(storage, LastToken) = {}

\* C3: release_if_eligible on a locked token while the clock is below its
\* unlock time, called directly or as an item of batch_release, is a no-op:
\* the record stays, the escrow keeps custody, no event about the token is
\* published and the call raises no error.
C3_GuardNoOp ==
    \A t \in Tokens :
        (Locked(t) /\ now < Records[t].unlock_timestamp) =>
            /\ LET post == InvokeReleaseIfEligible(t)
               IN  /\ post.last.res = Ok
                   /\ post.storage = storage
                   /\ post.holder = holder
                   /\ holder[t] = Escrow
                   /\ post.last.events = <<>>
            /\ \A ids \in TokenSeqs :
                  (\E i \in 1..Len(ids) : ids[i] = t) =>
                     LET post == InvokeBatchRelease(ids)
                     IN  /\ post.last.res = Ok
                         /\ get_lock_status(post.storage, t) = {Records[t]}
                         /\ post.holder[t] = Escrow
                         /\ \A i \in 1..Len(post.last.events) :
                               post.last.events[i][2] # t

C3_Witness ==
    /\ last.op = "release_if_eligible"
    /\ last.res = Ok
    /\ last.events = <<>>
    /\ Locked(LastToken)
    /\ now < Records[LastToken].unlock_timestamp

\* C4: release_if_eligible on an eligible locked token performs one custody
\* transfer and publishes one release event, and a second call right after
\* it changes nothing and raises no error; so does any call on a token
\* that has no record.
C4_ReleaseIdempotent ==
    \A t \in Tokens :
        /\ (Locked(t) /\ now >= Records[t].unlock_timestamp) =>
              LET post == InvokeReleaseIfEligible(t)
              IN  /\ post.last.res = Ok
                  /\ post.last.events =
                        <<<<EVENT_RELEASED, t, Records[t].unlock_timestamp>>>>
                  /\ post.holder =
                        [holder EXCEPT ![t] = Records[t].owner]
                  /\ release_if_eligible(post.storage, post.holder, now, t) =
                        Outcome(post.storage, post.holder, <<>>, Ok)
        /\ ~Locked(t) =>
              LET post == InvokeReleaseIfEligible(t)
              IN  /\ post.last.res = Ok
                  /\ post.last.events = <<>>
                  /\ post.storage = storage
                  /\ post.holder = holder

C4_Witness ==
    /\ last.op = "release_if_eligible"
    /\ last.res = Ok
    /\ last.events = <<>>
    /\ ~Locked(LastToken)
    /\ holder[LastToken] \in Accounts
    /\ Initialized

\* C5: force_release authorized by the configured admin succeeds whenever
\* the token has a record, whatever the clock: custody returns to the
\* recorded owner and the record is removed; when the token has no record
\* it fails with NotLocked and changes nothing.
C5_ForceReleaseUnconditional ==
    \A t \in Tokens, signer \in Signers :
        (Initialized /\ signer = The(get_admin(storage))) =>
            LET post == InvokeForceRelease(signer, t)
            IN  IF Locked(t)
                THEN /\ post.last.res = Ok
                     /\ post.holder = [holder EXCEPT ![t] = Records[t].owner]
                     /\ get_lock_status(post.storage, t) = {}
                     /\ post.last.events =
                           <<<<EVENT_FORCE_RELEASED, t,
                               Records[t].unlock_timestamp>>>>
                ELSE /\ post.last.res = NotLocked
                     /\ post.storage = storage
                     /\ post.holder = holder
                     /\ post.last.events = <<>>

C5_Witness ==
    /\ last.op = "force_release"
    /\ last.res = Ok
    /\ last.events # <<>>
    /\ now < last.events[1][3]
    /\ holder[LastToken] \in Accounts
    /\ ~Locked(LastToken)
\* C6: once an admin is configured, a force_release that does not carry the
\* admin's authorization fails with an authorization failure for every
\* token, locked or not, and changes nothing; and the record of a token
\* whose unlock time the clock has not reached disappears only in a step of
\* an admin-authorized force_release of that token.
C6_NonAdminRejected ==
    \A t \in Tokens, signer \in Signers :
        (Initialized /\ signer # The(get_admin(storage))) =>
            LET post == InvokeForceRelease(signer, t)
            IN  /\ post.last.res = AuthFailed
                /\ post.storage = storage
                /\ post.holder = holder
                /\ post.last.events = <<>>

C6_EarlyExitOnlyByAdmin ==
    \A t \in Tokens :
        (/\ Locked(t)
         /\ now < Records[t].unlock_timestamp
         /\ get_lock_status(storage', t) = {})
            => /\ last'.op = "force_release"
               /\ last'.res = Ok
               /\ ForceRelease(The(get_admin(storage)), t)

C6_ForceReleaseAdminOnly ==
    [](C6_NonAdminRejected) /\ [][C6_EarlyExitOnlyByAdmin]_vars

C6_Witness ==
    /\ last.op = "force_release"
    /\ last.res = AuthFailed
    /\ Locked(LastToken)
    /\ now < Records[LastToken].unlock_timestamp
    /\ holder[LastToken] = Escrow

\* C7: for every token that has a record, the registry's holder of the
\* token is the escrow itself, never the recorded owner or another account.
C7_CustodyInvariant ==
    \A t \in Tokens :
        Locked(t) =>
            /\ holder[t] = Escrow
            /\ Records[t].owner \in Accounts
            /\ Records[t].owner # holder[t]
            /\ Records[t].token_id = t

C7_Witness ==
    /\ last.op = "lock_credit"
    /\ last.res = Ok
    /\ Locked(LastToken)
    /\ holder[LastToken] = Escrow
    /\ Records[LastToken].deposited_at = now

\* Every call of an entry point in the current state.
AllCalls ==
    {InvokeInitialize(signer, admin, vv, vcc) :
        signer \in Signers, admin \in AdminCandidates, vv \in BOOLEAN,
        vcc \in {{}, {Policy}}}
    \cup {InvokeLockCredit(invoker, signer, t, ts) :
            invoker \in Invokers, signer \in Signers, t \in Tokens,
            ts \in Times}
    \cup {InvokeReleaseIfEligible(t) : t \in Tokens}
    \cup {InvokeBatchRelease(ids) : ids \in TokenSeqs}
    \cup {InvokeForceRelease(signer, t) : signer \in Signers, t \in Tokens}

\* C8: a call of any entry point that fails leaves the storage (records and
\* configuration) and the custody of every token as before the call and
\* publishes no event; a lock_credit whose owner does not hold the token,
\* or whose owner lookup fails, is such a failing call and creates no
\* record.
C8_AtomicAbort ==
    /\ \A post \in AllCalls :
          post.last.res # Ok =>
             /\ post.storage = storage
             /\ post.holder = holder
             /\ post.last.events = <<>>
    /\ \A invoker \in Invokers, signer \in Signers, t \in Tokens, ts \in Times :
          LET post == InvokeLockCredit(invoker, signer, t, ts)
              owner == IF invoker = Registry THEN holder[t] ELSE invoker
          IN  (owner = Unminted \/ holder[t] # owner) =>
                 /\ post.last.res # Ok
                 /\ post.storage = storage
                 /\ post.holder = holder
                 /\ (Initialized /\ Authorized(invoker, signer)
                     /\ VintagePasses(t, ts) /\ ~Locked(t))
                       => post.last.res \in {TransferFailed, OwnerOfFailed}

C8_Witness ==
    /\ last.op = "lock_credit"
    /\ last.res = TransferFailed
    /\ last.events = <<>>
    /\ ~Locked(LastToken)
    /\ holder[LastToken] \in Accounts

\* The minimum unlock times the policy collaborator may answer.
PolicyAnswers == 0..(MaxTime + 1)

\* C9: with validate_vintage set and a policy collaborator that reports the
\* minimum M for the token, an authorized lock_credit with an unlock time
\* below M fails with VintageMismatch, creates no record and moves no
\* custody; a request of M or more is not rejected by the validator.
C9_VintageEnforced ==
    \A invoker \in Invokers, signer \in Signers, t \in Tokens, ts \in Times,
       M \in PolicyAnswers :
        (/\ should_validate_vintage(storage)
         /\ get_vintage_check_contract(storage) # {}
         /\ Authorized(invoker, signer)) =>
            LET post == InvokeLockCreditWith(invoker, signer, t, ts, M)
            IN  /\ ts < M =>
                      /\ post.last.res = VintageMismatch
                      /\ post.storage = storage
                      /\ post.holder = holder
                /\ ts >= M =>
                      post.last.res \notin {VintageMismatch, VintageCheckMissing}

C9_Witness ==
    /\ last.op = "lock_credit"
    /\ last.res = VintageMismatch
    /\ ~Locked(LastToken)
    /\ holder[LastToken] \in Accounts

\* C10: in every step a token's record stays identical, or appears through
\* a successful lock_credit of that token, or disappears through a
\* release_if_eligible or batch_release naming the token taken with the
\* clock at or past its unlock time, or through an admin-authorized
\* force_release of the token; a record is never replaced or changed.
C10_Step ==
    \A t \in Tokens :
        LET before == get_lock_status(storage, t)
            after == get_lock_status(storage', t)
        IN  \/ after = before
            \/ /\ before = {}
               /\ after # {}
               /\ last'.op = "lock_credit"
               /\ last'.token_ids = <<t>>
               /\ last'.res = Ok
            \/ /\ before # {}
               /\ after = {}
               /\ last'.op \in {"release_if_eligible", "batch_release"}
               /\ \E i \in 1..Len(last'.token_ids) : last'.token_ids[i] = t
               /\ last'.res = Ok
               /\ now >= The(before).unlock_timestamp
            \/ /\ before # {}
               /\ after = {}
               /\ last'.op = "force_release"
               /\ last'.res = Ok
               /\ ForceRelease(The(get_admin(storage)), t)

C10_RecordStateMachine == [][C10_Step]_vars

C10_Witness ==
    /\ last.op = "batch_release"
    /\ last.res = Ok
    /\ \E i \in 1..Len(last.events) :
          /\ last.events[i][1] = EVENT_RELEASED
          /\ last.events[i][3] <= now
          /\ ~Locked(last.events[i][2])
          /\ holder[last.events[i][2]] \in Accounts
    /\ \E t \in Tokens : Locked(t)
\* What C11 says of the current state and every timestamp.
C11_QueryAnswer ==
    \A ts \in PolicyAnswers :
        LET result == get_tokens_locked_until(storage, ts)
            post == InvokeGetTokensLockedUntil(ts)
        IN  /\ {result[i] : i \in 1..Len(result)} =
                  {t \in Tokens :
                      /\ get_lock_status(storage, t) # {}
                      /\ The(get_lock_status(storage, t)).unlock_timestamp > ts}
            /\ Cardinality({result[i] : i \in 1..Len(result)}) = Len(result)
            /\ post.last.res = Ok
            /\ post.storage = storage
            /\ post.holder = holder

\* C11: for every timestamp ts, get_tokens_locked_until(ts) returns, each
\* once, exactly the tokens that have a record whose unlock time is
\* strictly greater than ts (a record with unlock time ts is left out, a
\* token without a record never appears), and the call changes no state.
C11_RangeQueryExact == [](C11_QueryAnswer)

C11_Witness ==
    /\ last.op = "get_tokens_locked_until"
    /\ \E ts \in Times, t \in Tokens :
          /\ get_tokens_locked_until(storage, ts) # <<>>
          /\ Locked(t)
          /\ Records[t].unlock_timestamp = ts
\* What C12 says of every lock_credit made in the current state.
C12_LockCreditCalls ==
    \A invoker \in Invokers, signer \in Signers, t \in Tokens, ts \in Times :
        LET post == InvokeLockCredit(invoker, signer, t, ts)
            created == get_lock_status(post.storage, t)
        IN  /\ (Initialized /\ invoker = Registry) =>
                  /\ post.last.res # AuthFailed
                  /\ \A other \in Signers :
                        InvokeLockCredit(invoker, other, t, ts) = post
                  /\ post.last.res = Ok =>
                        /\ owner_of(holder, t) = {The(created).owner}
                        /\ holder[t] = The(created).owner
                        /\ post.holder[t] = Escrow
            /\ (Initialized /\ invoker # Registry) =>
                  /\ signer # invoker => post.last.res = AuthFailed
                  /\ post.last.res = Ok =>
                        /\ signer = invoker
                        /\ The(created).owner = invoker
                        /\ holder[t] = invoker
                        /\ post.holder[t] = Escrow
            /\ (invoker # Registry /\ signer # invoker) =>
                  /\ post.last.res # Ok
                  /\ post.storage = storage
                  /\ post.holder = holder

\* C12: a lock_credit called by the configured asset registry has the same
\* outcome whatever authorization accompanies it, and when it succeeds the
\* recorded owner is the registry's owner_of(token) at call time, the
\* account the token is taken from.  A lock_credit by any other caller fails
\* unless the authorization is the caller's own, and when it succeeds the
\* recorded owner is the caller, who held the token; no record is ever
\* created for an account other than the caller by a non-registry caller.
C12_AuthGateAndOwner == [](C12_LockCreditCalls)

\* A lock has just been made while another token is still with its account:
\* the registry can lock that token unsigned for its holder, the holder can
\* lock it under its own authorization, and nobody else can.
C12_Witness ==
    /\ last.op = "lock_credit"
    /\ last.res = Ok
    /\ Locked(LastToken)
    /\ \E t \in Tokens, ts \in Times :
          /\ holder[t] \in Accounts
          /\ InvokeLockCredit(Registry, NoSigner, t, ts).last.res = Ok
          /\ InvokeLockCredit(holder[t], holder[t], t, ts).last.res = Ok
          /\ InvokeLockCredit(holder[t], NoSigner, t, ts).last.res = AuthFailed
          /\ \A a \in Accounts \ {holder[t]} :
                InvokeLockCredit(a, a, t, ts).last.res = TransferFailed

\* release_if_eligible called once per identifier of token_ids, in order,
\* each call a transaction of its own made in the state (st, hold) the
\* calls before it left; the events are those the calls published.
RECURSIVE SequentialRelease(_, _, _)
SequentialRelease(st, hold, token_ids) ==
    IF token_ids = <<>> THEN [storage |-> st, holder |-> hold, events |-> <<>>]
    ELSE LET out == release_if_eligible(st, hold, now, Head(token_ids))
             st1 == IF out.res = Ok THEN out.storage ELSE st
             hold1 == IF out.res = Ok THEN out.holder ELSE hold
             ev1 == IF out.res = Ok THEN Published(out.events) ELSE <<>>
             rest == SequentialRelease(st1, hold1, Tail(token_ids))
         IN  [rest EXCEPT !.events = ev1 \o rest.events]
\* What C13 says of every batch_release made in the current state.
C13_BatchCalls ==
    \A token_ids \in TokenSeqs :
        (\A t \in Tokens : Locked(t) => holder[t] = Escrow) =>
            LET post == InvokeBatchRelease(token_ids)
                seq == SequentialRelease(storage, holder, token_ids)
                listed == {token_ids[i] : i \in 1..Len(token_ids)}
                eligible == {t \in listed :
                                /\ Locked(t)
                                /\ now >= Records[t].unlock_timestamp}
                after == read_lock_records(post.storage)
                events == post.last.events
            IN  /\ post.last.res = Ok
                /\ post.storage = seq.storage
                /\ post.holder = seq.holder
                /\ events = seq.events
                /\ DOMAIN after = (DOMAIN Records) \ eligible
                /\ \A t \in DOMAIN after : after[t] = Records[t]
                /\ \A t \in Tokens :
                      post.holder[t] = IF t \in eligible THEN Records[t].owner
                                       ELSE holder[t]
                /\ Len(events) = Cardinality(eligible)
                /\ {events[i] : i \in 1..Len(events)} =
                      {<<EVENT_RELEASED, t, Records[t].unlock_timestamp>> :
                          t \in eligible}
                /\ [storage EXCEPT !.LockRecords = {}] =
                      [post.storage EXCEPT !.LockRecords = {}]

\* C13: when the escrow holds every recorded token (no custody transfer
\* fails), batch_release(token_ids) succeeds and leaves the records, the
\* custody and the release events that release_if_eligible called on each
\* identifier in order leaves; exactly the listed tokens that are locked
\* with the clock at or past their unlock time lose their record and go
\* back to their owner, one event each; listed tokens that are unlocked,
\* not yet eligible or repeated are skipped, and every other token keeps
\* its record and its holder.
C13_BatchIsSequential == [](C13_BatchCalls)

\* A batch naming two different locked tokens released the eligible one and
\* skipped the one whose unlock time had not come.
C13_Witness ==
    /\ last.op = "batch_release"
    /\ last.res = Ok
    /\ Len(last.token_ids) = 2
    /\ last.token_ids[1] # last.token_ids[2]
    /\ Len(last.events) = 1
    /\ \E t \in Tokens :
          /\ last.events[1][2] = t
          /\ ~Locked(t)
          /\ holder[t] \in Accounts
    /\ \E t \in Tokens :
          /\ Locked(t)
          /\ now < Records[t].unlock_timestamp

\* C14: when the return transfer of any item of a batch_release fails (a
\* listed token is locked and eligible but the escrow does not hold it), the
\* call fails as a whole: every record and the custody of every token are
\* as before the call and no event is published, also for the eligible
\* items that came earlier in the sequence.
C14_BatchAtomicity ==
    \A token_ids \in TokenSeqs :
        LET post == InvokeBatchRelease(token_ids)
            listed == {token_ids[i] : i \in 1..Len(token_ids)}
            failing == {t \in listed :
                           /\ Locked(t)
                           /\ now >= Records[t].unlock_timestamp
                           /\ holder[t] # Escrow}
        IN  /\ failing # {} =>
                  /\ post.last.res = TransferFailed
                  /\ post.storage = storage
                  /\ post.holder = holder
                  /\ post.last.events = <<>>
                  /\ \A t \in Tokens :
                        get_lock_status(post.storage, t) = get_lock_status(storage, t)
            /\ failing = {} => post.last.res = Ok

\* A batch whose second item failed has just aborted: its first item, locked,
\* eligible and held by the escrow, still has its record and its custody.
C14_Witness ==
    /\ last.op = "batch_release"
    /\ last.res = TransferFailed
    /\ last.events = <<>>
    /\ Len(last.token_ids) = 2
    /\ LET first == last.token_ids[1]
           second == last.token_ids[2]
       IN  /\ first # second
           /\ Locked(first)
           /\ now >= Records[first].unlock_timestamp
           /\ holder[first] = Escrow
           /\ Locked(second)
           /\ holder[second] # Escrow

\* The configuration keys of the storage.
Config(st) ==
    <<st.Admin, st.CarbonAssetContract, st.ValidateVintage, st.VintageCheckContract>>

\* What C15 says of every initialize call made in the current state.
C15_InitializeCalls ==
    \A signer \in Signers, admin \in AdminCandidates, vv \in BOOLEAN,
       vcc \in {{}, {Policy}} :
        LET post == InvokeInitialize(signer, admin, vv, vcc)
        IN  /\ Initialized =>
                  /\ post.last.res = AlreadyInitialized
                  /\ post.storage = storage
                  /\ post.holder = holder
            /\ signer # admin =>
                  /\ post.last.res # Ok
                  /\ post.storage = storage
            /\ post.last.res = Ok =>
                  /\ ~Initialized
                  /\ signer = admin
                  /\ get_admin(post.storage) = {admin}
                  /\ get_carbon_asset_contract(post.storage) = {Registry}
                  /\ Config(post.storage) = <<{admin}, {Registry}, {vv}, {vcc}>>
            /\ Initialized =>
                  /\ InvokeGetAdmin.last.res = Ok
                  /\ InvokeGetCarbonAssetContract.last.res = Ok
                  /\ get_admin(storage) \in {{a} : a \in AdminCandidates}
                  /\ get_carbon_asset_contract(storage) = {Registry}

\* What C15 says of every step: once initialized, no step changes a
\* configuration key, and only a successful initialize sets one.
C15_ConfigFrozen ==
    /\ Initialized => Config(storage') = Config(storage)
    /\ Config(storage') # Config(storage) =>
          /\ last'.op = "initialize"
          /\ last'.res = Ok

\* C15: initialize succeeds only under the authorization of the admin it
\* sets and only when the escrow is not yet initialized; every initialize
\* after a successful one fails with AlreadyInitialized and changes nothing;
\* once set, the admin, the asset registry address, the validate_vintage
\* flag and the policy address are the same after every step, so get_admin
\* and get_carbon_asset_contract return the values given to initialize.
C15_InitializedOnce == [](C15_InitializeCalls) /\ [][C15_ConfigFrozen]_vars

\* A second initialize has just been refused on an escrow that holds a lock.
C15_Witness ==
    /\ last.op = "initialize"
    /\ last.res = AlreadyInitialized
    /\ Initialized
    /\ \E t \in Tokens : Locked(t)

\* The current storage with a record for token t added to the registry.
HeldRegistry(t) ==
    write_lock_records(storage, MapSet(Records, t, LockRecord(t, "alice", now, now)))
\* What C16 says of every lock_credit made in the current state.
C16_LockCreditCalls ==
    /\ (should_validate_vintage(storage) /\ get_vintage_check_contract(storage) = {}) =>
          \A invoker \in Invokers, signer \in Signers, t \in Tokens, ts \in Times :
              Authorized(invoker, signer) =>
                  /\ {InvokeLockCreditWith(invoker, signer, t, ts, M) : M \in PolicyAnswers} =
                        {[storage |-> storage, holder |-> holder,
                          last |-> [op |-> "lock_credit", token_ids |-> <<t>>,
                                    res |-> VintageCheckMissing, events |-> <<>>]]}
                  /\ get_lock_status(storage, t) = {}
                  /\ lock_credit(HeldRegistry(t), holder, now, invoker, signer,
                                 t, ts, MaxTime).res = VintageCheckMissing
    /\ ~should_validate_vintage(storage) =>
          \A invoker \in Invokers, signer \in Signers, t \in Tokens, ts \in Times :
              LET posts == {InvokeLockCreditWith(invoker, signer, t, ts, M) :
                               M \in PolicyAnswers}
              IN  /\ Cardinality(posts) = 1
                  /\ \A post \in posts :
                        post.last.res \notin {VintageCheckMissing, VintageMismatch}
                  /\ lock_credit(HeldRegistry(t), holder, now, invoker, signer,
                                 t, ts, MaxTime).res
                        \notin {VintageCheckMissing, VintageMismatch}

\* C16: with validate_vintage set and no policy collaborator configured,
\* every authorized lock_credit fails with VintageCheckMissing and changes
\* nothing, whoever holds the token (no transfer was attempted) and also on
\* a registry that already has a record for the token (the uniqueness check
\* was not reached).  With validate_vintage false, the outcome of
\* lock_credit does not depend on what the policy collaborator would answer
\* and is never VintageCheckMissing or VintageMismatch.
C16_VintageConfiguration == [](C16_LockCreditCalls)

\* The holder of a token has just been refused for the missing policy
\* collaborator; the token is still with its holder and has no record.
C16_Witness ==
    /\ last.op = "lock_credit"
    /\ last.res = VintageCheckMissing
    /\ should_validate_vintage(storage)
    /\ get_vintage_check_contract(storage) = {}
    /\ ~Locked(LastToken)
    /\ holder[LastToken] \in Accounts

\* What C17 says of the current state and of every lock_credit made in it.
C17_LockPostcondition ==
    /\ \A invoker \in Invokers, signer \in Signers, t \in Tokens, ts \in Times :
          LET post == InvokeLockCredit(invoker, signer, t, ts)
              owner == IF invoker = Registry THEN holder[t] ELSE invoker
          IN  post.last.res = Ok =>
                  /\ ~Locked(t)
                  /\ post.holder = [holder EXCEPT ![t] = Escrow]
                  /\ get_lock_status(post.storage, t) =
                        {[token_id |-> t, owner |-> owner,
                          unlock_timestamp |-> ts, deposited_at |-> now]}
                  /\ \A other \in Tokens \ {t} :
                        get_lock_status(post.storage, other) =
                            get_lock_status(storage, other)
    /\ \A t \in Tokens :
          LET post == InvokeGetLockStatus(t)
          IN  /\ post.last.res = Ok
              /\ post.storage = storage
              /\ post.holder = holder
              /\ post.last.events = <<>>
              /\ ~Locked(t) <=> get_lock_status(storage, t) = {}
              /\ Locked(t) =>
                    /\ get_lock_status(storage, t) = {Records[t]}
                    /\ Records[t].token_id = t
                    /\ Records[t].owner \in Accounts
                    /\ Records[t].deposited_at <= now

\* What C17 says of every step: the record get_lock_status returns for a
\* token is the same after the step unless the step released the token.
C17_RecordKept ==
    \A t \in Tokens :
        get_lock_status(storage, t) # {} =>
            \/ get_lock_status(storage', t) = get_lock_status(storage, t)
            \/ /\ get_lock_status(storage', t) = {}
               /\ last'.op \in {"release_if_eligible", "batch_release", "force_release"}
               /\ last'.res = Ok

\* C17: a successful lock_credit(token, t) at clock c, which happens only on
\* a token without a record, leaves the escrow as the registry's holder of
\* the token and makes get_lock_status(token) return {token_id = token,
\* owner = the determined owner, unlock_timestamp = t, deposited_at = c};
\* every later step keeps that answer until a release removes the record;
\* for a token without a record get_lock_status returns absence; and
\* get_lock_status changes neither storage nor custody and publishes nothing.
C17_LockStatus == [](C17_LockPostcondition) /\ [][C17_RecordKept]_vars

\* get_lock_status has just been called while one token has a record
\* deposited at an earlier clock value and another token has none.
C17_Witness ==
    /\ last.op = "get_lock_status"
    /\ \E t \in Tokens :
          /\ Locked(t)
          /\ holder[t] = Escrow
          /\ Records[t].deposited_at < now
    /\ \E t \in Tokens : get_lock_status(storage, t) = {}

\* C18: batch_retire(token_ids, entity, reason) under the entity's
\* authorization always completes: a token of the list that cannot be
\* retired (already retired, tracker not initialized, or its burn fails
\* because the entity does not hold it) is passed over and the rest of the
\* list is processed; the returned list holds exactly the records of the
\* tokens this call retired, each of them then has its record in the
\* retirement ledger and occurs once more in the entity's index, and every
\* other token's ledger entry is as before.
C18_BatchRetireContinues ==
    \A token_ids \in TokenSeqs, entity \in Accounts :
        LET post == InvokeBatchRetire(entity, token_ids, entity)
            listed == {token_ids[i] : i \in 1..Len(token_ids)}
            retirable == {t \in listed :
                             /\ t \notin DOMAIN retirement.RetirementLedger
                             /\ retirement.CarbonAssetContract # {}
                             /\ holder[t] = entity}
            ledger == post.retirement.RetirementLedger
            index == post.retirement.EntityIndex[entity]
            before == retirement.EntityIndex[entity]
        IN  /\ post.last.res = Ok
            /\ {post.ret[i].token_id : i \in 1..Len(post.ret)} = retirable
            /\ Len(post.ret) = Cardinality(retirable)
            /\ DOMAIN ledger = DOMAIN retirement.RetirementLedger \cup retirable
            /\ \A t \in DOMAIN retirement.RetirementLedger :
                  ledger[t] = retirement.RetirementLedger[t]
            /\ \A i \in 1..Len(post.ret) :
                  /\ ledger[post.ret[i].token_id] = post.ret[i]
                  /\ post.ret[i].retiring_entity = entity
            /\ Len(index) = Len(before) + Cardinality(retirable)
            /\ SubSeq(index, 1, Len(before)) = before
            /\ {index[i] : i \in (Len(before) + 1)..Len(index)} = retirable
            /\ \A t \in Tokens :
                  post.holder[t] = IF t \in retirable THEN Unminted ELSE holder[t]

\* What C19 says of every state: release_if_eligible of a token that has a
\* record, with the clock at or past its unlock time, succeeds, removes the
\* record and hands the token to the recorded owner.
C19_EligibleReleaseSucceeds ==
    \A t \in Tokens :
        (Locked(t) /\ now >= Records[t].unlock_timestamp) =>
            LET post == InvokeReleaseIfEligible(t)
            IN  /\ post.last.res = Ok
                /\ get_lock_status(post.storage, t) = {}
                /\ post.holder[t] = Records[t].owner
                /\ post.last.events =
                      <<<<EVENT_RELEASED, t, Records[t].unlock_timestamp>>>>

\* What C19 says of every step: a token whose record the step removes is
\* held by the owner the record named after the step.
C19_ReturnedToOwner ==
    \A t \in Tokens :
        (Locked(t) /\ get_lock_status(storage', t) = {}) =>
            holder'[t] = Records[t].owner

\* C19: when the clock keeps advancing and release_if_eligible keeps being
\* called for every token (weak fairness on both), every token that has a
\* record eventually has none and is held by the owner the record named;
\* and in no reachable state does release_if_eligible fail or do nothing for
\* a locked token whose unlock time the clock has reached.
C19_ReleaseLiveness ==
    /\ \A t \in Tokens : Locked(t) ~> ~Locked(t)
    /\ [][C19_ReturnedToOwner]_vars
    /\ [](C19_EligibleReleaseSucceeds)

\* A token locked until the last clock value has just been released by
\* release_if_eligible, once the clock got there.
C19_Witness ==
    /\ last.op = "release_if_eligible"
    /\ last.res = Ok
    /\ Len(last.events) = 1
    /\ last.events[1][3] = MaxTime
    /\ now = MaxTime
    /\ ~Locked(LastToken)
    /\ holder[LastToken] \in Accounts

\* A call that failed with NotInitialized and changed nothing.
RefusedNotInitialized(post) ==
    /\ post.last.res = NotInitialized
    /\ post.storage = storage
    /\ post.holder = holder
    /\ post.last.events = <<>>

\* A call that succeeded, changed nothing and published nothing.
SucceededWithoutEffect(post) ==
    /\ post.last.res = Ok
    /\ post.storage = storage
    /\ post.holder = holder
    /\ post.last.events = <<>>
\* What C20 says of the current state and every call made in it.
C20_UninitializedCalls ==
    /\ ~Initialized =>
          /\ \A t \in Tokens : ~Locked(t)
          /\ \A invoker \in Invokers, signer \in Signers, t \in Tokens, ts \in Times :
                RefusedNotInitialized(InvokeLockCredit(invoker, signer, t, ts))
          /\ \A signer \in Signers, t \in Tokens :
                RefusedNotInitialized(InvokeForceRelease(signer, t))
          /\ RefusedNotInitialized(InvokeGetAdmin)
          /\ RefusedNotInitialized(InvokeGetCarbonAssetContract)
          /\ \A t \in Tokens :
                /\ SucceededWithoutEffect(InvokeReleaseIfEligible(t))
                /\ SucceededWithoutEffect(InvokeGetLockStatus(t))
                /\ get_lock_status(storage, t) = {}
          /\ \A token_ids \in TokenSeqs :
                SucceededWithoutEffect(InvokeBatchRelease(token_ids))
          /\ \A ts \in PolicyAnswers :
                /\ SucceededWithoutEffect(InvokeGetTokensLockedUntil(ts))
                /\ get_tokens_locked_until(storage, ts) = <<>>
    /\ \A signer \in Signers, admin \in AdminCandidates, vv \in BOOLEAN,
          vcc \in {{}, {Policy}} :
          LET post == InvokeInitialize(signer, admin, vv, vcc)
          IN  post.last.res = Ok =>
                  /\ \A t \in Tokens :
                        /\ get_lock_status(storage, t) = {}
                        /\ get_lock_status(post.storage, t) = {}
                  /\ post.holder = holder
    /\ Initialized <=> get_carbon_asset_contract(storage) # {}

\* C20: while initialize has not succeeded there is no record; lock_credit,
\* force_release, get_admin and get_carbon_asset_contract fail with
\* NotInitialized for every input; release_if_eligible and batch_release
\* succeed without effect, get_lock_status returns absence and
\* get_tokens_locked_until the empty list; and an initialize that succeeds
\* finds no record, so the empty registry it writes discards none.
C20_BeforeInitialize == [](C20_UninitializedCalls)

\* A token's holder has just been refused by lock_credit on the escrow that
\* was never initialized.
C20_Witness ==
    /\ ~Initialized
    /\ last.op = "lock_credit"
    /\ last.res = NotInitialized
    /\ holder[LastToken] \in Accounts
    /\ \A t \in Tokens : get_lock_status(storage, t) = {}

\* The call left the record and the holder of every token outside `named`,
\* and the configuration keys, as they were.
FrameKept(post, named) ==
    /\ \A t \in Tokens \ named :
          /\ get_lock_status(post.storage, t) = get_lock_status(storage, t)
          /\ post.holder[t] = holder[t]
    /\ Config(post.storage) = Config(storage)

\* What C21 says of every call made in the current state.
C21_FrameOfCalls ==
    /\ \A invoker \in Invokers, signer \in Signers, t \in Tokens, ts \in Times :
          FrameKept(InvokeLockCredit(invoker, signer, t, ts), {t})
    /\ \A t \in Tokens : FrameKept(InvokeReleaseIfEligible(t), {t})
    /\ \A signer \in Signers, t \in Tokens :
          FrameKept(InvokeForceRelease(signer, t), {t})
    /\ \A token_ids \in TokenSeqs :
          FrameKept(InvokeBatchRelease(token_ids),
                    {token_ids[i] : i \in 1..Len(token_ids)})
    /\ Initialized =>
          \A signer \in Signers, admin \in AdminCandidates, vv \in BOOLEAN,
             vcc \in {{}, {Policy}} :
              FrameKept(InvokeInitialize(signer, admin, vv, vcc), {})

\* What C21 says of every step that is a call of the escrow: only a token
\* the call named has another record or another holder after it, and a
\* configuration that was set is the same after it.
C21_FrameOfStep ==
    last'.op \in {"initialize", "lock_credit", "release_if_eligible",
                  "batch_release", "force_release"} =>
        /\ \A t \in Tokens :
              (\/ get_lock_status(storage', t) # get_lock_status(storage, t)
               \/ holder'[t] # holder[t]) =>
                  /\ last'.res = Ok
                  /\ \E i \in 1..Len(last'.token_ids) : last'.token_ids[i] = t
        /\ Initialized => Config(storage') = Config(storage)

\* C21: lock_credit(token, _), release_if_eligible(token) and
\* force_release(token) leave the record and the registry holder of every
\* token other than the one named as they were (batch_release likewise for
\* every token it does not list), and no operation of the escrow changes
\* the admin, the registry address, the vintage flag or the policy address
\* once initialize has set them.
C21_Frame == [](C21_FrameOfCalls) /\ [][C21_FrameOfStep]_vars

\* force_release has just released one token while the other token keeps
\* its record and stays with the escrow.
C21_Witness ==
    /\ last.op = "force_release"
    /\ last.res = Ok
    /\ ~Locked(LastToken)
    /\ holder[LastToken] \in Accounts
    /\ \E t \in Tokens \ {LastToken} :
          /\ Locked(t)
          /\ holder[t] = Escrow

====
